---- MODULE Spec2Model ----
(***************************************************************************)
(* Model of the rainfall-prediction backend: the model selector of         *)
(* backend/main.py (chat, chat_daily), the two weather pipelines of        *)
(* backend/utils/weather_service.py (fetch_weather_data,                   *)
(* fetch_daily_weather_data) and the result interpreter of                 *)
(* backend/utils/prediction_service.py (predict_rainfall,                  *)
(* predict_daily_rainfall).                                                *)
(*                                                                         *)
(* Time is counted in whole hours since 1 January 00:00 of a non-leap      *)
(* year; a date is the number of whole days (t \div 24).  Timestamps of    *)
(* hourly records are hours, timestamps of daily records are days.         *)
(* Floating-point numbers are fixed-point integers: the unit is named with *)
(* each definition.                                                        *)
(***************************************************************************)
EXTENDS Integers, Sequences, FiniteSets, TLC

\* ------------------------------------------------------------------ bounds
\* Largest window length tried besides the production lengths 24 and 30.
MaxLen == 5
\* Longest upstream response whose records come in any order and repetition.
MaxResp == 2
\* Arbitrary-order responses draw their timestamps from end-ArbSpan .. end+1.
ArbSpan == 3
\* requests served side by side
MaxRequests == 2
\* Longest run of consecutive records in one upstream response.
MaxRun == 34

\* ------------------------------------------------------- generic helpers
Min(a, b) == IF a < b THEN a ELSE b
Max(a, b) == IF a > b THEN a ELSE b

\* The value Python's None.
None == "None"

\* datetime.date(): the calendar day of a timestamp in hours.
Date(t) == t \div 24

SeqRange(s) == {s[i] : i \in 1..Len(s)}

\* ------------------------------------------------ records of the provider
\* hourly sub-fields requested from the provider (weather_service.py 111-118)
HourlyRawFields ==
    <<"temperature_2m", "relative_humidity_2m", "surface_pressure",
      "wind_speed_10m", "wind_direction_10m", "cloud_cover">>

\* daily sub-fields the pipeline reads (weather_service.py 373-385), as
\* <<provider key, DataFrame column>>
DailyRawFields ==
    << <<"temperature_2m_mean", "temp_mean_C">>,
       <<"temperature_2m_max", "temp_max_C">>,
       <<"temperature_2m_min", "temp_min_C">>,
       <<"precipitation_sum", "precipitation_sum_mm">>,
       <<"wind_speed_10m_max", "wind_mean_ms">>,
       <<"wind_direction_10m_dominant", "wind_dir_deg">>,
       <<"relative_humidity_2m_mean", "rh_mean_pct">>,
       <<"surface_pressure_mean", "press_mean_hPa">>,
       <<"cloud_cover_mean", "cloud_mean_pct">>,
       <<"dew_point_2m_mean", "dew_point_C">> >>

\* required_fields of fetch_weather_data, in the order the loop tests them
required_fields_hourly ==
    <<"time", "temperature_2m", "relative_humidity_2m", "surface_pressure",
      "wind_speed_10m", "wind_direction_10m", "cloud_cover">>

\* required_fields of fetch_daily_weather_data, in the order the loop tests them
required_fields_daily ==
    <<"time", "temperature_2m_mean", "temperature_2m_max",
      "temperature_2m_min", "precipitation_sum", "wind_speed_10m_max",
      "wind_direction_10m_dominant", "relative_humidity_2m_mean",
      "surface_pressure_mean", "cloud_cover_mean", "dew_point_2m_mean">>

\* One hourly record of the provider: the i-th record of a response carries
\* values that identify it (whole units of each field).
HourlyRecord(t, i) ==
    [time |-> t,
     temperature_2m |-> i,
     relative_humidity_2m |-> 40 + i,
     surface_pressure |-> 1000 + i,
     wind_speed_10m |-> 2 * i,
     wind_direction_10m |-> 10 * i,
     cloud_cover |-> 3 * i]

\* One daily record of the provider, as the row pd.DataFrame builds from it
\* (provider keys renamed to the DataFrame columns).
DailyRecord(t, i) ==
    [time |-> t,
     temp_mean_C |-> 10 + i,
     temp_max_C |-> 15 + i,
     temp_min_C |-> 5 + i,
     precipitation_sum_mm |-> i,
     wind_mean_ms |-> 2 * i,
     wind_dir_deg |-> 10 * i,
     rh_mean_pct |-> 40 + i,
     press_mean_hPa |-> 1000 + i,
     cloud_mean_pct |-> 3 * i,
     dew_point_C |-> i - 2]

\* --------------------------------------------------- Time Window Resolver
ARCHIVE == "https://archive-api.open-meteo.com/v1/archive"
FORECAST == "https://api.open-meteo.com/v1/forecast"

\* start_time = end_time - timedelta(hours=hours)
start_time_hourly(end_time, hours) == end_time - hours

\* start_date = end_date - timedelta(days=days)
start_date_daily(end_date, days) == end_date - 24 * days

\* days_ago = (now_utc.date() - end_time.date()).days
days_ago(now_utc, end_time) == Date(now_utc) - Date(end_time)

\* the endpoint choice with the boundary day sent to the archive
select_url_from5(d) == IF d >= 5 THEN ARCHIVE ELSE FORECAST

\* the endpoint chosen from days_ago
select_url(d) == IF d > 5 THEN ARCHIVE ELSE FORECAST

\* the date parameters without the limit of 92 past days
date_params_uncapped(d, now_utc, start_time, end_time) ==
    IF d > 5
    THEN [start_date |-> Date(start_time), end_date |-> Date(end_time)]
    ELSE [past_days |-> Max(0, Date(now_utc) - Date(start_time)) + 1,
          forecast_days |-> 1]

\* the date parameters added to params, from days_ago and the window; a key
\* the code does not set is not in the record
date_params(d, now_utc, start_time, end_time) ==
    IF d > 5
    THEN [start_date |-> Date(start_time), end_date |-> Date(end_time)]
    ELSE [past_days |-> Min(Max(0, Date(now_utc) - Date(start_time)) + 1, 92),
          forecast_days |-> 1]

\* ------------------------------------------------------------ exceptions
NoError == [type |-> None, msg |-> <<>>]

\* the fetch error without the text of the upstream error
FetchFailed_bare(e) == [type |-> "httpx.HTTPError",
                        msg |-> <<"Open-Meteo API request failed">>]

\* raise httpx.HTTPError(f"Open-Meteo API request failed: {str(e)}")
FetchFailed(e) == [type |-> "httpx.HTTPError",
                   msg |-> <<"Open-Meteo API request failed: ", e>>]

\* raise ValueError("API response missing 'hourly' data") / 'daily'
MissingTop(key) == [type |-> "ValueError",
                    msg |-> <<"API response missing data", key>>]

\* raise ValueError(f"API response missing required field: {field}")
MissingField(field) == [type |-> "ValueError",
                        msg |-> <<"API response missing required field: ", field>>]

\* raise ValueError(f"Insufficient weather data: expected at least {m} ..., got {n} ...")
Insufficient(m, n) == [type |-> "ValueError",
                       msg |-> <<"Insufficient weather data: expected at least ", m, " got ", n>>]

\* last_row['time'].iloc[0] on an empty frame
EmptyFrameIndexError == [type |-> "IndexError",
                         msg |-> <<"single positional indexer is out-of-bounds">>]

\* ---------------------------------------------------------- Window Aligner
\* the hourly filter with the left edge closed: a record exactly one hour
\* before the start is kept
filter_hourly_closed(rows, start_time, end_time) ==
    SelectSeq(rows, LAMBDA r : r.time >= start_time - 1 /\ r.time <= end_time)

\* df[(df["time"] > start_time_naive - timedelta(hours=1)) & (df["time"] <= end_time_naive)]
filter_hourly(rows, start_time, end_time) ==
    SelectSeq(rows, LAMBDA r : r.time > start_time - 1 /\ r.time <= end_time)

\* df[(df["time"] >= start_date_ts) & (df["time"] <= end_date_ts)], on dates
filter_daily(rows, start_date, end_date) ==
    SelectSeq(rows, LAMBDA r : r.time >= Date(start_date) /\ r.time <= Date(end_date))

\* min_required = int(length * 0.8)
min_required(length) == (length * 8) \div 10

\* df.sort_values('time'): ascending by time; rows of equal time keep their
\* order (the sort is an insertion sort below 17 rows, and the longer
\* responses of this model hold no two rows of equal time).
RECURSIVE InsertByTime(_, _)
InsertByTime(s, r) ==
    IF s = <<>> THEN <<r>>
    ELSE IF s[Len(s)].time <= r.time THEN Append(s, r)
    ELSE Append(InsertByTime(SubSeq(s, 1, Len(s) - 1), r), s[Len(s)])

RECURSIVE sort_values(_)
sort_values(s) ==
    IF s = <<>> THEN <<>>
    ELSE InsertByTime(sort_values(SubSeq(s, 1, Len(s) - 1)), s[Len(s)])

\* the first k rows instead of the last k
head(s, k) == SubSeq(s, 1, k)

\* df.tail(k)
tail(s, k) == SubSeq(s, Len(s) - k + 1, Len(s))

\* the padded row with the loop index not advanced by one: the first padded
\* row repeats the timestamp of the last real row
padded_row_from_zero(last_row, i) == [last_row EXCEPT !.time = last_row.time + i]

\* padded_row = last_row.copy(); padded_row['time'] = last_row['time'] + timedelta(hours=i+1)
padded_row(last_row, i) == [last_row EXCEPT !.time = last_row.time + (i + 1)]

\* the padding loop: for i in range(rows_to_add): df = concat(df, padded_row)
pad(df, hours) ==
    [k \in 1..hours |->
        IF k <= Len(df) THEN df[k] ELSE padded_row(df[Len(df)], k - Len(df) - 1)]

\* the aligner without its padding branch
align_hourly_unpadded(df, hours) ==
    IF Len(df) > hours THEN tail(df, hours) ELSE df

\* the trim / pad branch of fetch_weather_data on the sorted frame
align_hourly(df, hours) ==
    IF Len(df) > hours THEN tail(df, hours)
    ELSE IF Len(df) < hours THEN pad(df, hours)
    ELSE df

\* the trim branch of fetch_daily_weather_data on the sorted frame
align_daily(df, days) ==
    IF Len(df) > days THEN tail(df, days) ELSE df

\* -------------------------------------------------------- Feature Engineer
\* first day of each month, counted from 1 January = day 0 of a non-leap year
MonthStart == <<0, 31, 59, 90, 120, 151, 181, 212, 243, 273, 304, 334>>

\* t.dt.month of a date
MonthOfDate(d) ==
    Cardinality({m \in 1..12 : MonthStart[m] <= d % 365})

\* t.dt.hour of an hourly timestamp
HourOf(t) == t % 24

\* 1000 * sin(2*pi*k/24) and 1000 * cos(2*pi*k/24) for k = 0..23, rounded
Sin24 == <<0, 259, 500, 707, 866, 966, 1000, 966, 866, 707, 500, 259,
           0, -259, -500, -707, -866, -966, -1000, -966, -866, -707, -500, -259>>
Cos24 == <<1000, 966, 866, 707, 500, 259, 0, -259, -500, -707, -866, -966,
           -1000, -966, -866, -707, -500, -259, 0, 259, 500, 707, 866, 966>>

\* np.sin(2 * np.pi * hour / 24), np.cos(...), in thousandths
hour_sin(h) == Sin24[h + 1]
hour_cos(h) == Cos24[h + 1]
\* np.sin(2 * np.pi * month / 12), np.cos(...), in thousandths
month_sin(m) == Sin24[((2 * m) % 24) + 1]
month_cos(m) == Cos24[((2 * m) % 24) + 1]

\* the columns fetch_weather_data adds to each row (hour, month and their
\* cyclical encodings); the raw columns stay as they are
add_features_hourly(df) ==
    [k \in 1..Len(df) |->
        [time |-> df[k].time,
         temperature_2m |-> df[k].temperature_2m,
         relative_humidity_2m |-> df[k].relative_humidity_2m,
         surface_pressure |-> df[k].surface_pressure,
         wind_speed_10m |-> df[k].wind_speed_10m,
         wind_direction_10m |-> df[k].wind_direction_10m,
         cloud_cover |-> df[k].cloud_cover,
         hour |-> HourOf(df[k].time),
         month |-> MonthOfDate(Date(df[k].time)),
         hour_sin |-> hour_sin(HourOf(df[k].time)),
         hour_cos |-> hour_cos(HourOf(df[k].time)),
         month_sin |-> month_sin(MonthOfDate(Date(df[k].time))),
         month_cos |-> month_cos(MonthOfDate(Date(df[k].time)))]]

\* a lag column that is not shifted: row t holds its own value
shift_fillna_unshifted(df, col, k, fill, t) == df[t][col]

\* df[col].shift(k).fillna(fill), as the value of row t
shift_fillna(df, col, k, fill, t) == IF t - k >= 1 THEN df[t - k][col] ELSE fill

RECURSIVE SumCol(_, _, _, _)
SumCol(df, col, lo, hi) ==
    IF lo > hi THEN 0 ELSE df[hi][col] + SumCol(df, col, lo, hi - 1)

\* the rolling sum always divided by the full window of 7
rolling_mean7_full_window(df, col, t) ==
    (1000 * SumCol(df, col, Max(1, t - 6), t)) \div 7

\* df[col].rolling(window=7, min_periods=1).mean(), as the value of row t,
\* in thousandths
rolling_mean7(df, col, t) ==
    (1000 * SumCol(df, col, Max(1, t - 6), t)) \div (t - Max(1, t - 6) + 1)

\* the columns fetch_daily_weather_data adds to each row
add_features_daily(df, latitude, longitude) ==
    [t \in 1..Len(df) |->
        [time |-> df[t].time,
         temp_mean_C |-> df[t].temp_mean_C,
         temp_max_C |-> df[t].temp_max_C,
         temp_min_C |-> df[t].temp_min_C,
         precipitation_sum_mm |-> df[t].precipitation_sum_mm,
         wind_mean_ms |-> df[t].wind_mean_ms,
         wind_dir_deg |-> df[t].wind_dir_deg,
         rh_mean_pct |-> df[t].rh_mean_pct,
         press_mean_hPa |-> df[t].press_mean_hPa,
         cloud_mean_pct |-> df[t].cloud_mean_pct,
         dew_point_C |-> df[t].dew_point_C,
         month |-> MonthOfDate(df[t].time),
         month_sin |-> month_sin(MonthOfDate(df[t].time)),
         month_cos |-> month_cos(MonthOfDate(df[t].time)),
         precip_lag_1 |-> shift_fillna(df, "precipitation_sum_mm", 1, 0, t),
         precip_lag_3 |-> shift_fillna(df, "precipitation_sum_mm", 3, 0, t),
         temp_mean_lag_1 |-> shift_fillna(df, "temp_mean_C", 1, df[1].temp_mean_C, t),
         precip_roll7 |-> rolling_mean7(df, "precipitation_sum_mm", t),
         lat |-> latitude,
         lon |-> longitude]]

\* feature_columns of fetch_weather_data: the column order of the matrix
feature_columns_hourly ==
    <<"temperature_2m", "relative_humidity_2m", "surface_pressure",
      "wind_speed_10m", "wind_direction_10m", "cloud_cover",
      "hour", "month", "hour_sin", "hour_cos", "month_sin", "month_cos">>

\* feature_columns of fetch_daily_weather_data
feature_columns_daily ==
    <<"temp_mean_C", "temp_max_C", "temp_min_C", "rh_mean_pct",
      "press_mean_hPa", "wind_mean_ms", "wind_dir_deg", "cloud_mean_pct",
      "dew_point_C", "month", "month_sin", "month_cos",
      "precip_lag_1", "precip_lag_3", "temp_mean_lag_1", "precip_roll7",
      "lat", "lon">>

\* columns whose model value is already in thousandths
MilliColumns == {"hour_sin", "hour_cos", "month_sin", "month_cos", "precip_roll7"}

\* df[feature_columns].values: the cell of row r and column col, in thousandths
cell_value(r, col) == IF col \in MilliColumns THEN r[col] ELSE 1000 * r[col]

\* ----------------------------------------------------------------- Normalizer
\* FEATURE_MEAN, in thousandths
FEATURE_MEAN ==
    <<15000, 60000, 1013000, 10000, 180000, 50000, 11500, 6500, 0, 0, 0, 0>>
\* FEATURE_STD, in thousandths
FEATURE_STD ==
    <<10000, 25000, 10000, 5000, 100000, 35000, 6900, 3500, 700, 700, 700, 700>>
\* DAILY_FEATURE_MEAN, in thousandths
DAILY_FEATURE_MEAN ==
    <<15000, 20000, 10000, 65000, 1013000, 3500, 180000, 50000, 8000, 6500,
      0, 0, 2000, 2000, 15000, 2000, 30000, 0>>
\* DAILY_FEATURE_STD, in thousandths
DAILY_FEATURE_STD ==
    <<10000, 10000, 10000, 20000, 15000, 2000, 100000, 30000, 8000, 3500,
      700, 700, 5000, 5000, 10000, 4000, 30000, 80000>>

\* a cell scaled by the standard deviation but never centred on the mean
normalize_cell_uncentred(x, mean, std) == [num |-> x, den |-> 1000 * std + 1]

\* (x - mean) / (std + 1e-6) of one cell, kept as the exact quotient
\* num / den: num in thousandths, den in millionths
normalize_cell(x, mean, std) == [num |-> x - mean, den |-> 1000 * std + 1]

\* a normalizer that fits its centre on the request's own frame (the first
\* row's values) instead of using the fixed profile
normalize_fitted(df, columns, mean, std) ==
    [i \in 1..Len(df) |->
        [j \in 1..Len(columns) |->
            normalize_cell(cell_value(df[i], columns[j]),
                           cell_value(df[1], columns[j]), std[j])]]

\* (weather_data_array - MEAN) / (STD + 1e-6), as a list of rows
normalize(df, columns, mean, std) ==
    [i \in 1..Len(df) |->
        [j \in 1..Len(columns) |->
            normalize_cell(cell_value(df[i], columns[j]), mean[j], std[j])]]

\* ------------------------------------------- the pipelines after the GET
\* the required-field loop run from the end of the list: the last field the
\* response lacks
last_missing(required, missing, k) ==
    LET idx == {i \in k..Len(required) : required[i] \in missing}
    IN  IF idx = {} THEN None
        ELSE required[CHOOSE i \in idx : \A j \in idx : j <= i]

\* the first field of the required list that the response lacks
RECURSIVE first_missing(_, _, _)
first_missing(required, missing, k) ==
    IF k > Len(required) THEN None
    ELSE IF required[k] \in missing THEN required[k]
    ELSE first_missing(required, missing, k + 1)

\* what a pipeline hands back: the exception raised (NoError on a return),
\* the returned matrix and frame, and the row count after the window filter
Raised(e, n) == [error |-> e, weather_data_2d |-> <<>>, df |-> <<>>, n |-> n]
Returned(m, df, n) == [error |-> NoError, weather_data_2d |-> m, df |-> df, n |-> n]

\* fetch_weather_data from response.json() to its return
hourly_after_get(body, hours, end_time) ==
    LET start_time == start_time_hourly(end_time, hours)
        filtered == filter_hourly(body.rows, start_time, end_time)
        sorted == sort_values(filtered)
    IN  IF ~body.top THEN Raised(MissingTop("hourly"), 0)
        ELSE IF first_missing(required_fields_hourly, body.missing, 1) # None
        THEN Raised(MissingField(first_missing(required_fields_hourly, body.missing, 1)), 0)
        ELSE IF Len(filtered) < min_required(hours)
        THEN Raised(Insufficient(min_required(hours), Len(filtered)), Len(filtered))
        ELSE IF Len(sorted) < hours /\ Len(sorted) = 0
        THEN Raised(EmptyFrameIndexError, 0)
        ELSE LET df == add_features_hourly(align_hourly(sorted, hours))
             IN  Returned(normalize(df, feature_columns_hourly, FEATURE_MEAN, FEATURE_STD),
                          df, Len(filtered))

\* the daily pipeline with the features derived before the frame is cut to
\* its last rows
daily_after_get_features_first(body, days, end_date, latitude, longitude) ==
    LET start_date == start_date_daily(end_date, days)
        filtered == filter_daily(body.rows, start_date, end_date)
        sorted == sort_values(filtered)
    IN  IF ~body.top THEN Raised(MissingTop("daily"), 0)
        ELSE IF first_missing(required_fields_daily, body.missing, 1) # None
        THEN Raised(MissingField(first_missing(required_fields_daily, body.missing, 1)), 0)
        ELSE IF Len(filtered) < min_required(days)
        THEN Raised(Insufficient(min_required(days), Len(filtered)), Len(filtered))
        ELSE IF Len(sorted) = 0
        THEN Raised(EmptyFrameIndexError, 0)
        ELSE LET df == align_daily(add_features_daily(sorted, latitude, longitude), days)
             IN  Returned(normalize(df, feature_columns_daily,
                                    DAILY_FEATURE_MEAN, DAILY_FEATURE_STD),
                          df, Len(filtered))

\* fetch_daily_weather_data from response.json() to its return
daily_after_get(body, days, end_date, latitude, longitude) ==
    LET start_date == start_date_daily(end_date, days)
        filtered == filter_daily(body.rows, start_date, end_date)
        sorted == sort_values(filtered)
    IN  IF ~body.top THEN Raised(MissingTop("daily"), 0)
        ELSE IF first_missing(required_fields_daily, body.missing, 1) # None
        THEN Raised(MissingField(first_missing(required_fields_daily, body.missing, 1)), 0)
        ELSE IF Len(filtered) < min_required(days)
        THEN Raised(Insufficient(min_required(days), Len(filtered)), Len(filtered))
        ELSE IF Len(sorted) = 0
        THEN Raised(EmptyFrameIndexError, 0)
        ELSE LET df == add_features_daily(align_daily(sorted, days), latitude, longitude)
             IN  Returned(normalize(df, feature_columns_daily,
                                    DAILY_FEATURE_MEAN, DAILY_FEATURE_STD),
                          df, Len(filtered))

\* --------------------------------------------------------- Result Interpreter
\* floats of the interpreter are counted in units of 1 / FP
FP == 10000

\* a / b rounded to the nearest integer (b > 0)
RDiv(a, b) == (a + b \div 2) \div b

\* round(x, digits) of Python: to the nearest multiple of unit, ties to even
RoundHalfEven(x, unit) ==
    LET q == x \div unit
        r == x % unit
    IN  IF 2 * r < unit THEN q
        ELSE IF 2 * r > unit THEN q + 1
        ELSE IF q % 2 = 0 THEN q ELSE q + 1

\* torch.expm1: the series y + y^2/2! + y^3/3! + ... in fixed point
RECURSIVE expm1_series(_, _, _)
expm1_series(y, term, k) ==
    IF term = 0 \/ k > 40 THEN 0
    ELSE term + expm1_series(y, RDiv(term * y, (k + 1) * FP), k + 1)

expm1(y) == expm1_series(y, y, 1)

\* the scaling of the chance of rain: 20 per mm/h, 10 per mm/day
hourly_chance_scale == 20
daily_chance_scale == 10

\* the chance of rain without its cap
chance_of_rain_uncapped(rain_mm, scale) == rain_mm * scale

\* chance_of_rain = min(rain_mm * scale, 100), in units of 1 / FP
chance_of_rain(rain_mm, scale) == Min(rain_mm * scale, 100 * FP)

\* the dict predict_rainfall returns for the model output y_log:
\* rain_mm and rain_log in thousandths, chance_of_rain in tenths
predict_rainfall(y_log) ==
    [rain_mm |-> RoundHalfEven(expm1(y_log), FP \div 1000),
     rain_log |-> RoundHalfEven(y_log, FP \div 1000),
     chance_of_rain |-> RoundHalfEven(chance_of_rain(expm1(y_log), hourly_chance_scale),
                                      FP \div 10)]

\* the dict predict_daily_rainfall returns for the model output y_log
predict_daily_rainfall(y_log) ==
    [rain_mm |-> RoundHalfEven(expm1(y_log), FP \div 1000),
     rain_log |-> RoundHalfEven(y_log, FP \div 1000),
     chance_of_rain |-> RoundHalfEven(chance_of_rain(expm1(y_log), daily_chance_scale),
                                      FP \div 10)]

\* ------------------------------------------------------------ Model Selector
\* the selector with the threshold off by one: 18 itself stays hourly
use_daily_model_above18(offset, daily_loaded) == offset > 18 /\ daily_loaded

\* use_daily_model = time_offset >= 18 and daily_model is not None
use_daily_model(offset, daily_loaded) == offset >= 18 /\ daily_loaded

\* chat without the test of the hourly handle before the pipeline call
chat_route_fetch_unchecked(intent, has_location, needs_location, has_current, offset, hourly_loaded, daily_loaded) ==
    IF intent = "greeting" THEN "greeting"
    ELSE IF intent = "help" THEN "help"
    ELSE IF intent = "info" THEN "info"
    ELSE IF needs_location /\ ~has_location THEN "ask_location"
    ELSE IF ~(has_location \/ has_current) THEN "specify_city"
    ELSE IF use_daily_model(offset, daily_loaded) THEN "daily"
    ELSE "hourly"

\* the branch chat takes, from the parsed query and the two predictor handles:
\* the text of an early return, or the pipeline it runs
chat_route(intent, has_location, needs_location, has_current, offset, hourly_loaded, daily_loaded) ==
    IF intent = "greeting" THEN "greeting"
    ELSE IF intent = "help" THEN "help"
    ELSE IF intent = "info" THEN "info"
    ELSE IF needs_location /\ ~has_location THEN "ask_location"
    ELSE IF ~(has_location \/ has_current) THEN "specify_city"
    ELSE IF use_daily_model(offset, daily_loaded)
         THEN (IF ~daily_loaded THEN "daily_unavailable" ELSE "daily")
         ELSE (IF ~hourly_loaded THEN "hourly_unavailable" ELSE "hourly")

\* chat_daily without the test of the daily handle
chat_daily_route_unguarded(has_location, needs_location, has_current, daily_loaded) ==
    IF needs_location /\ ~has_location THEN "ask_location"
    ELSE IF ~(has_location \/ has_current) THEN "specify_city"
    ELSE "daily"

\* the branch chat_daily takes
chat_daily_route(has_location, needs_location, has_current, daily_loaded) ==
    IF needs_location /\ ~has_location THEN "ask_location"
    ELSE IF ~(has_location \/ has_current) THEN "specify_city"
    ELSE IF ~daily_loaded THEN "daily_unavailable"
    ELSE "daily"

\* ChatResponse: the template of the text, the exception the text embeds,
\* whether location is set and the prediction (NoPrediction when absent)
NoPrediction == [rain_mm |-> 0, rain_log |-> 0, chance_of_rain |-> 0, present |-> FALSE]
WithPrediction(p) == [rain_mm |-> p.rain_mm, rain_log |-> p.rain_log,
                      chance_of_rain |-> p.chance_of_rain, present |-> TRUE]
NoResponse == [text |-> None, detail |-> NoError, location |-> FALSE,
               prediction |-> NoPrediction]
ChatResponse(text, detail, has_location, p) ==
    [text |-> text, detail |-> detail, location |-> has_location, prediction |-> p]

\* ------------------------------------------------------------------- inputs
\* time_offset_hours of a parsed query
Offsets == {-24, 0, 17, 18, 19}
\* intent of a parsed query
Intents == {"greeting", "help", "info", "weather"}
\* datetime.now(UTC), in hours: 6 February, 01:00
Nows == {36 * 24 + 1}
\* explicit end timestamps, relative to now
EndDeltas == {-24 * 7, -24 * 6, -24 * 5 - 2, -24 * 5, 0, 30}
\* the result of TimezoneFinder.timezone_at: no zone, or a zone and its
\* offset from UTC in hours
Zones == {[found |-> FALSE, offset |-> 0], [found |-> TRUE, offset |-> -8],
          [found |-> TRUE, offset |-> 9]}
\* coordinates of a request, in whole degrees
GeoPoints == {[latitude |-> 35, longitude |-> 139]}
\* window lengths of a call: the short ones, the production lengths 24 and
\* 30, and a daily window that reaches further back than the provider's 92
\* past days (no response is long enough to fill it)
HourlyLengths == (1..MaxLen) \cup {24}
DailyLengths == (1..MaxLen) \cup {30, 95}
\* str(e) of the httpx.HTTPError of a failed GET
UpstreamErrors == {"ReadTimeout", "ConnectError", "HTTPStatusError 500"}
\* outputs of the scoring function, in units of 1 / FP
LogValues == {-10000, -1, 0, 1, 10000, 17918, 30000}

\* the timestamps of a response: lo, lo+1, ..., hi and hi, hi-1, ..., lo
UpTimes(lo, hi) == [i \in 1..Max(0, hi - lo + 1) |-> lo + i - 1]
DownTimes(lo, hi) == [i \in 1..Max(0, hi - lo + 1) |-> hi - i + 1]

\* the timestamp lists a response may hold for the window s..e (in units of
\* the granularity): a run of at most MaxRun consecutive timestamps in
\* either order, or up to MaxResp timestamps in any order and repetition
ResponseTimes(s, e) ==
    {UpTimes(lo, hi) : lo \in Max(s - 2, e + 2 - MaxRun)..(e + 1), hi \in {e - 1, e + 1}}
    \cup {DownTimes(lo, hi) : lo \in Max(s - 2, e + 2 - MaxRun)..(e + 1), hi \in {e - 1, e + 1}}
    \cup UNION {[1..k -> (e - ArbSpan)..(e + 1)] : k \in 0..MaxResp}

HourlyRows(times) == [i \in 1..Len(times) |-> HourlyRecord(times[i], i)]
DailyRows(times) == [i \in 1..Len(times) |-> DailyRecord(times[i], i)]

\* sets of one or two sub-fields a malformed response lacks
MissingSets(required) ==
    {{required[i], required[j]} : i \in 1..Len(required), j \in 1..Len(required)}

\* response.json(): whether the top-level key is there, the sub-fields that
\* are not, and the records
NoBody == [top |-> FALSE, missing |-> {}, rows |-> <<>>]
WellFormed(rows) == [top |-> TRUE, missing |-> {}, rows |-> rows]
Malformed(required) ==
    {[top |-> FALSE, missing |-> {}, rows |-> <<>>]}
    \cup {[top |-> TRUE, missing |-> m, rows |-> <<>>] : m \in MissingSets(required)}

HourlyBodies(hours, end) ==
    {WellFormed(HourlyRows(ts)) : ts \in ResponseTimes(start_time_hourly(end, hours), end)}
    \cup Malformed(required_fields_hourly)
DailyBodies(days, end) ==
    {WellFormed(DailyRows(ts)) :
        ts \in ResponseTimes(Date(start_date_daily(end, days)), Date(end))}
    \cup Malformed(required_fields_daily)

\* -------------------------------------------------------------------- state
VARIABLES
    pc,           \* "boot": server not started; "idle"; "fetching": a pipeline
                  \* awaits its GET; "done": the call or request has ended
    model,        \* main.model: TRUE when the hourly checkpoint is loaded
    daily_model,  \* main.daily_model: TRUE when the daily checkpoint is loaded
    caller,       \* "chat", "chat_daily", or "direct" for a call of the
                  \* pipeline function itself (as backend/test/test_api.py does)
    time_offset,  \* parsed["time_offset_hours"]
    granularity,  \* "hourly" / "daily": the pipeline that was entered
    length,       \* hours / days
    end_time,     \* end_time / end_date after the None branch
    now_utc,      \* datetime.now(UTC)
    location,     \* latitude, longitude
    fetch_tz,     \* timezone lookup of the pipeline: None, "found", "not_found"
    end_param,    \* the end_time / end_date argument of the pipeline call
    timezone_str, \* what tf.timezone_at returned, when it was called
    url,          \* endpoint of the GET
    params,       \* date parameters of the GET
    httpGets,     \* number of client.get calls of the pipeline
    http_error,   \* str(e) of the httpx.HTTPError the GET raised, or None
    body,         \* response.json()
    result,       \* what the pipeline raised or returned
    y_log,        \* output of the scoring function
    response,     \* the ChatResponse of the request
    calls,        \* the pipeline and prediction functions called, in order
    inflight      \* the requests being served side by side, by slot: where
                  \* each handler stands and what it answered

vars == <<pc, model, daily_model, caller, time_offset, granularity, length,
          end_time, now_utc, location, fetch_tz, end_param, timezone_str, url,
          params, httpGets,
          http_error, body, result, y_log, response, calls, inflight>>

handles == <<model, daily_model>>
request == <<caller, time_offset, response>>
window == <<granularity, length, end_time, now_utc, location, fetch_tz, end_param,
           timezone_str, url, params>>
fetched == <<httpGets, http_error, body, result, y_log>>

NoParams == [nothing |-> 0]
NoResult == Raised(NoError, 0)
NoLocation == [latitude |-> 0, longitude |-> 0]
\* no end argument (end_time=None), and an end argument
NoEnd == [given |-> FALSE, value |-> 0]
GivenEnd(t) == [given |-> TRUE, value |-> t]
\* no timezone lookup was made
NoLookup == [found |-> FALSE, offset |-> 0]
\* a slot no request occupies
NoRequest == [at |-> "free", handler |-> None, route |-> None, text |-> None]

Init ==
    /\ pc = "boot"
    /\ model = FALSE
    /\ daily_model = FALSE
    /\ caller = None
    /\ time_offset = 0
    /\ granularity = None
    /\ length = 0
    /\ end_time = 0
    /\ now_utc = 0
    /\ location = NoLocation
    /\ fetch_tz = None
    /\ end_param = NoEnd
    /\ timezone_str = NoLookup
    /\ url = None
    /\ params = NoParams
    /\ httpGets = 0
    /\ http_error = None
    /\ body = NoBody
    /\ result = NoResult
    /\ y_log = 0
    /\ response = NoResponse
    /\ calls = <<>>
    /\ inflight = [id \in 1..MaxRequests |-> NoRequest]

\* startup_event: each checkpoint loads or fails to load
startup_event ==
    /\ pc = "boot"
    /\ model' \in BOOLEAN
    /\ daily_model' \in BOOLEAN
    /\ pc' = "idle"
    /\ UNCHANGED <<request, window, fetched, calls, inflight>>

\* a resolver that ignores the end argument and always takes now
resolve_end_always_now(explicit, end_arg, now, zone) ==
    IF zone.found THEN now + zone.offset ELSE now

\* if end_time is None: now in the zone of the coordinates, or now in UTC
resolve_end(explicit, end_arg, now, zone) ==
    IF explicit THEN end_arg
    ELSE IF zone.found THEN now + zone.offset ELSE now

\* what the None branch did with the timezone lookup
tz_lookup(explicit, zone) ==
    IF explicit THEN None ELSE IF zone.found THEN "found" ELSE "not_found"

\* a pipeline function from its entry to the await of client.get
EnterPipeline(kind, len, explicit, end_arg, now, zone, geo) ==
    LET end == resolve_end(explicit, end_arg, now, zone)
        start == IF kind = "hourly" THEN start_time_hourly(end, len)
                 ELSE start_date_daily(end, len)
    IN  /\ pc' = "fetching"
        /\ granularity' = kind
        /\ length' = len
        /\ end_time' = end
        /\ now_utc' = now
        /\ location' = geo
        /\ fetch_tz' = tz_lookup(explicit, zone)
        /\ end_param' = (IF explicit THEN GivenEnd(end_arg) ELSE NoEnd)
        /\ timezone_str' = (IF explicit THEN NoLookup ELSE zone)
        /\ url' = select_url(days_ago(now, end))
        /\ params' = date_params(days_ago(now, end), now, start, end)
        /\ calls' = Append(calls, IF kind = "hourly" THEN "fetch_weather_data"
                                  ELSE "fetch_daily_weather_data")
        /\ UNCHANGED fetched

\* a request that ends before any pipeline is entered
Respond(r) ==
    /\ pc' = "done"
    /\ response' = r
    /\ UNCHANGED <<window, fetched, calls>>

\* fetch_weather_data called on its own, up to the await of client.get
call_fetch_weather_data ==
    /\ pc = "boot"
    /\ \E hours \in HourlyLengths, explicit \in BOOLEAN, delta \in EndDeltas,
          now \in Nows, zone \in Zones, geo \in GeoPoints :
          /\ explicit => zone = CHOOSE z \in Zones : ~z.found
          /\ ~explicit => delta = 0
          /\ EnterPipeline("hourly", hours, explicit, now + delta, now, zone, geo)
    /\ caller' = "direct"
    /\ UNCHANGED <<handles, time_offset, response, inflight>>

\* fetch_daily_weather_data called on its own, up to the await of client.get
call_fetch_daily_weather_data ==
    /\ pc = "boot"
    /\ \E days \in DailyLengths, explicit \in BOOLEAN, delta \in EndDeltas,
          now \in Nows, zone \in Zones, geo \in GeoPoints :
          /\ explicit => zone = CHOOSE z \in Zones : ~z.found
          /\ ~explicit => delta = 0
          /\ EnterPipeline("daily", days, explicit, now + delta, now, zone, geo)
    /\ caller' = "direct"
    /\ UNCHANGED <<handles, time_offset, response, inflight>>

\* chat, from the request to its early return or to the await of client.get.
\* parse_user_query and calculate_target_time are not among the sources: the
\* parsed fields and the target time are any values of the input sets.
chat ==
    /\ pc = "idle"
    /\ \E intent \in Intents, has_location \in BOOLEAN, needs_location \in BOOLEAN,
          has_current \in BOOLEAN, offset \in Offsets, delta \in EndDeltas,
          now \in Nows, zone \in Zones, geo \in GeoPoints :
          LET route == chat_route(intent, has_location, needs_location, has_current,
                                  offset, model, daily_model)
              located == route \in {"daily_unavailable", "hourly_unavailable"}
          IN  /\ caller' = "chat"
              /\ time_offset' = offset
              /\ IF route = "daily"
                 THEN /\ EnterPipeline("daily", 30, FALSE, 0, now, zone, geo)
                      /\ response' = response
                 ELSE IF route = "hourly"
                 THEN /\ EnterPipeline("hourly", 24, TRUE, now + delta, now,
                                       CHOOSE z \in Zones : ~z.found, geo)
                      /\ response' = response
                 ELSE Respond(ChatResponse(route, NoError, located, NoPrediction))
    /\ UNCHANGED <<handles, inflight>>

\* chat_daily served the way chat is: by the hour offset and the hourly
\* predictor as well
chat_daily_by_offset ==
    /\ pc = "idle"
    /\ \E has_location \in BOOLEAN, needs_location \in BOOLEAN,
          has_current \in BOOLEAN, offset \in Offsets, delta \in EndDeltas,
          now \in Nows, zone \in Zones, geo \in GeoPoints :
          LET route == chat_route("weather", has_location, needs_location, has_current,
                                  offset, model, daily_model)
              located == route \in {"daily_unavailable", "hourly_unavailable"}
          IN  /\ caller' = "chat_daily"
              /\ time_offset' = offset
              /\ IF route = "daily"
                 THEN /\ EnterPipeline("daily", 30, FALSE, 0, now, zone, geo)
                      /\ response' = response
                 ELSE IF route = "hourly"
                 THEN /\ EnterPipeline("hourly", 24, TRUE, now + delta, now,
                                       CHOOSE z \in Zones : ~z.found, geo)
                      /\ response' = response
                 ELSE Respond(ChatResponse(route, NoError, located, NoPrediction))
    /\ UNCHANGED <<handles, inflight>>

\* chat_daily, from the request to its early return or to the await of
\* client.get; the hour offset of the parsed query is not looked at
chat_daily ==
    /\ pc = "idle"
    /\ \E has_location \in BOOLEAN, needs_location \in BOOLEAN,
          has_current \in BOOLEAN, offset \in Offsets, now \in Nows, zone \in Zones,
          geo \in GeoPoints :
          LET route == chat_daily_route(has_location, needs_location, has_current,
                                        daily_model)
          IN  /\ caller' = "chat_daily"
              /\ time_offset' = offset
              /\ IF route = "daily"
                 THEN /\ EnterPipeline("daily", 30, FALSE, 0, now, zone, geo)
                      /\ response' = response
                 ELSE Respond(ChatResponse(route, NoError, route = "daily_unavailable",
                                           NoPrediction))
    /\ UNCHANGED <<handles, inflight>>

\* an except branch that answers with a prediction all the same
fetch_failed_response_with_prediction(e) ==
    ChatResponse("fetch_failed", e, TRUE, WithPrediction(predict_rainfall(0)))

\* the except branch around the pipeline call in chat and chat_daily
fetch_failed_response(e) == ChatResponse("fetch_failed", e, TRUE, NoPrediction)

\* a handler without the try / except around the pipeline call: it scores
\* and answers a prediction whatever the pipeline did
AfterPipeline_scoring_anyway(r) ==
    /\ result' = r
    /\ pc' = "done"
    /\ IF caller = "direct"
       THEN UNCHANGED <<y_log, response, calls>>
       ELSE \E y \in LogValues :
            /\ y_log' = y
            /\ calls' = Append(calls, IF granularity = "hourly" THEN "predict_rainfall"
                                      ELSE "predict_daily_rainfall")
            /\ response' = ChatResponse("prediction", NoError, TRUE,
                               WithPrediction(IF granularity = "hourly"
                                              THEN predict_rainfall(y)
                                              ELSE predict_daily_rainfall(y)))

\* the pipeline raised or returned r: a direct call ends; chat and chat_daily
\* answer the exception, or score the matrix and answer the prediction
AfterPipeline(r) ==
    /\ result' = r
    /\ pc' = "done"
    /\ IF caller = "direct"
       THEN UNCHANGED <<y_log, response, calls>>
       ELSE IF r.error # NoError
       THEN /\ response' = fetch_failed_response(r.error)
            /\ UNCHANGED <<y_log, calls>>
       ELSE \E y \in LogValues :
            /\ y_log' = y
            /\ calls' = Append(calls, IF granularity = "hourly" THEN "predict_rainfall"
                                      ELSE "predict_daily_rainfall")
            /\ response' = ChatResponse("prediction", NoError, TRUE,
                               WithPrediction(IF granularity = "hourly"
                                              THEN predict_rainfall(y)
                                              ELSE predict_daily_rainfall(y)))

\* client.get or raise_for_status raises httpx.HTTPError
http_get_fails ==
    /\ pc = "fetching"
    /\ httpGets' = httpGets + 1
    /\ body' = body
    /\ \E e \in UpstreamErrors :
          /\ http_error' = e
          /\ AfterPipeline(Raised(FetchFailed(e), 0))
    /\ UNCHANGED <<handles, caller, time_offset, window, inflight>>

\* client.get answers with a JSON body; the pipeline runs to its end
http_get_returns ==
    /\ pc = "fetching"
    /\ httpGets' = httpGets + 1
    /\ http_error' = None
    /\ \E b \in (IF granularity = "hourly" THEN HourlyBodies(length, end_time)
                 ELSE DailyBodies(length, end_time)) :
          /\ body' = b
          /\ AfterPipeline(IF granularity = "hourly"
                           THEN hourly_after_get(b, length, end_time)
                           ELSE daily_after_get(b, length, end_time,
                                                location.latitude, location.longitude))
    /\ UNCHANGED <<handles, caller, time_offset, window, inflight>>

\* the call or request is over; the next one starts from a clean slate
finish ==
    /\ pc = "done"
    /\ pc' = IF caller = "direct" THEN "boot" ELSE "idle"
    /\ caller' = None
    /\ time_offset' = 0
    /\ granularity' = None
    /\ length' = 0
    /\ end_time' = 0
    /\ now_utc' = 0
    /\ location' = NoLocation
    /\ fetch_tz' = None
    /\ end_param' = NoEnd
    /\ timezone_str' = NoLookup
    /\ url' = None
    /\ params' = NoParams
    /\ httpGets' = 0
    /\ http_error' = None
    /\ body' = NoBody
    /\ result' = NoResult
    /\ y_log' = 0
    /\ response' = NoResponse
    /\ calls' = <<>>
    /\ UNCHANGED <<handles, inflight>>

Next ==
    \/ startup_event
    \/ call_fetch_weather_data
    \/ call_fetch_daily_weather_data
    \/ chat
    \/ chat_daily
    \/ http_get_fails
    \/ http_get_returns
    \/ finish

Spec == Init /\ [][Next]_vars

\* The service taking chat requests one after another.  The awaited GET
\* does not stay pending: client.get runs under the 30 s timeout of
\* httpx.AsyncClient(timeout=30.0), so unless it answers first it raises
\* (httpx.TimeoutException is an httpx.HTTPError).
NextChat ==
    \/ startup_event
    \/ chat
    \/ http_get_fails
    \/ http_get_returns
    \/ finish

SpecLive ==
    Init /\ [][NextChat]_vars /\ WF_vars(http_get_fails)

\* ------------------------------------------- requests served side by side
\* The handlers are coroutines of one event loop: a handler runs from the
\* request to its return or to the await of client.get without interruption,
\* and any number of handlers may be suspended at that await at once.
Handlers == {"chat", "chat_daily"}

\* the slot of a handler that went as far as route
Accepted(handler, route) ==
    IF route \in {"daily", "hourly"}
    THEN [at |-> "awaiting_get", handler |-> handler, route |-> route, text |-> None]
    ELSE [at |-> "responded", handler |-> handler, route |-> route, text |-> route]

\* a handler that loads the checkpoints itself when it finds them missing
conc_accept_lazy_load(id) ==
    /\ pc = "idle"
    /\ inflight[id].at = "free"
    /\ model' = TRUE
    /\ daily_model' = TRUE
    /\ \E handler \in Handlers :
          inflight' = [inflight EXCEPT ![id] =
                          Accepted(handler, IF handler = "chat" THEN "hourly" ELSE "daily")]
    /\ UNCHANGED <<pc, request, window, fetched, calls>>

\* a request arrives while others are in flight: chat or chat_daily runs to
\* its early return or to the await of client.get
conc_accept(id) ==
    /\ pc = "idle"
    /\ inflight[id].at = "free"
    /\ \E handler \in Handlers, intent \in Intents, has_location \in BOOLEAN,
          needs_location \in BOOLEAN, has_current \in BOOLEAN, offset \in Offsets :
          inflight' = [inflight EXCEPT ![id] =
              Accepted(handler,
                       IF handler = "chat"
                       THEN chat_route(intent, has_location, needs_location,
                                       has_current, offset, model, daily_model)
                       ELSE chat_daily_route(has_location, needs_location,
                                             has_current, daily_model))]
    /\ UNCHANGED <<pc, handles, request, window, fetched, calls>>

\* the GET of a suspended handler completes: the handler resumes, answers
\* the exception of the pipeline or scores with the handle and answers the
\* prediction
conc_resume(id) ==
    /\ inflight[id].at = "awaiting_get"
    /\ \E raised \in BOOLEAN :
          inflight' = [inflight EXCEPT ![id].at = "responded",
                                       ![id].text = IF raised THEN "fetch_failed"
                                                    ELSE "prediction"]
    /\ UNCHANGED <<pc, handles, request, window, fetched, calls>>

\* the response of a handler is sent; its slot is free again
conc_respond(id) ==
    /\ inflight[id].at = "responded"
    /\ inflight' = [inflight EXCEPT ![id] = NoRequest]
    /\ UNCHANGED <<pc, handles, request, window, fetched, calls>>

NextConc ==
    \/ startup_event
    \/ \E id \in 1..MaxRequests : conc_accept(id)
    \/ \E id \in 1..MaxRequests : conc_resume(id)
    \/ \E id \in 1..MaxRequests : conc_respond(id)

SpecConc == Init /\ [][NextConc]_vars

\* ------------------------------------------------------------- properties
\* the model selector of chat was reached (no early return before it)
SelectorReached ==
    /\ caller = "chat"
    /\ pc \in {"fetching", "done"}
    /\ response.text \notin {"greeting", "help", "info", "ask_location", "specify_city"}

\* a pipeline ran to its return statement
PipelineReturned(kind) ==
    /\ pc = "done"
    /\ granularity = kind
    /\ result.error = NoError

\* the pipeline raised the insufficient-data error for m expected and n actual rows
IsInsufficient(e, m, n) ==
    /\ e.type = "ValueError"
    /\ e.msg = <<"Insufficient weather data: expected at least ", m, " got ", n>>

HourlyCalls == {"fetch_weather_data", "predict_rainfall"}
DailyCalls == {"fetch_daily_weather_data", "predict_daily_rainfall"}

\* C1: in chat, an offset of 18 hours or more with no daily predictor ends in
\* the daily-model-unavailable answer, and neither fetch_weather_data nor
\* predict_rainfall is called for it.
C1_DailyUnavailableNeverFallsBack ==
    (SelectorReached /\ time_offset >= 18 /\ ~daily_model)
        => /\ SeqRange(calls) \cap HourlyCalls = {}
           /\ pc = "done"
           /\ response.text = "daily_unavailable"

\* C2: in chat, an offset below 18 never enters the daily pipeline, whatever
\* the predictor handles; an offset of 18 or more with the daily predictor
\* loaded enters the daily pipeline and calls no function of the hourly one.
C2_SelectorThreshold ==
    SelectorReached =>
        /\ time_offset < 18 =>
              (granularity # "daily" /\ SeqRange(calls) \cap DailyCalls = {})
        /\ (time_offset >= 18 /\ daily_model) =>
              (granularity = "daily" /\ SeqRange(calls) \cap HourlyCalls = {}
               /\ calls[1] = "fetch_daily_weather_data")

\* an offset of exactly 18 answered by the daily pipeline
C2_Witness ==
    /\ SelectorReached
    /\ time_offset = 18
    /\ daily_model
    /\ calls = <<"fetch_daily_weather_data", "predict_daily_rainfall">>
    /\ response.prediction.present

\* C3: whenever fetch_weather_data returns, the matrix and the frame have
\* exactly `hours` rows and every matrix row has the 12 feature columns.
C3_HourlyShape ==
    PipelineReturned("hourly") =>
        /\ Len(result.weather_data_2d) = length
        /\ Len(result.df) = length
        /\ \A i \in 1..Len(result.weather_data_2d) : Len(result.weather_data_2d[i]) = 12

\* a production window of 24 hours returned from 19..23 filtered rows
C3_Witness ==
    /\ PipelineReturned("hourly")
    /\ length = 24
    /\ 5 * result.n >= 4 * length
    /\ result.n < length
    /\ Len(result.weather_data_2d) = 24

\* C4: whenever fetch_daily_weather_data returns, the matrix has exactly
\* `days` rows, each of the 18 feature columns.
C4_DailyShape ==
    PipelineReturned("daily") =>
        /\ Len(result.weather_data_2d) = length
        /\ \A i \in 1..Len(result.weather_data_2d) : Len(result.weather_data_2d[i]) = 18

\* C5: when a well-formed response leaves n rows after the window filter and
\* n < 0.8 * length, the pipeline raises the insufficient-data error naming
\* the expected and the actual count, and returns no matrix.
C5_BelowEightyPercentRejected ==
    (/\ pc = "done"
     /\ granularity # None
     /\ http_error = None
     /\ body.top
     /\ body.missing = {}
     /\ 5 * result.n < 4 * length)
        => /\ IsInsufficient(result.error, min_required(length), result.n)
           /\ result.weather_data_2d = <<>>

\* C6: in a padded output of fetch_weather_data every padded row is one hour
\* after the row before it, and each of its raw fields equals that field of
\* the last real row.
C6_PaddedRows ==
    (PipelineReturned("hourly") /\ result.n < length) =>
        \A k \in (result.n + 1)..Len(result.df) :
            /\ result.df[k].time = result.df[k - 1].time + 1
            /\ \A f \in SeqRange(HourlyRawFields) :
                  result.df[k][f] = result.df[result.n][f]

\* an output with at least two padded rows after at least two real rows
C6_Witness ==
    /\ PipelineReturned("hourly")
    /\ result.n >= 2
    /\ result.n + 2 <= length
    /\ Len(result.df) = length
    /\ result.df[result.n].temperature_2m # result.df[1].temperature_2m

\* C7: in both pipelines the GET goes to the archive endpoint exactly when
\* today's UTC date minus the date of the end timestamp exceeds 5 days, and
\* to the forecast endpoint otherwise.
C7_ArchiveIffOlderThan5Days ==
    (pc \in {"fetching", "done"} /\ granularity # None) =>
        /\ url \in {ARCHIVE, FORECAST}
        /\ url = ARCHIVE <=> Date(now_utc) - Date(end_time) > 5

\* the boundary: an end exactly 5 days back goes to the forecast endpoint
C7_Witness ==
    /\ pc = "done"
    /\ granularity = "daily"
    /\ Date(now_utc) - Date(end_time) = 5
    /\ url = FORECAST

\* C8: every prediction has rain_mm >= 0 and 0 <= chance_of_rain <= 100
\* (chance_of_rain is counted in tenths).
C8_PredictionRange ==
    response.prediction.present =>
        /\ response.prediction.rain_mm >= 0
        /\ response.prediction.chance_of_rain >= 0
        /\ response.prediction.chance_of_rain <= 1000

\* the factor of the chance of rain in the mode of the answered request
ScaleOf(kind) == IF kind = "hourly" THEN 20 ELSE 10

\* |a - b|
Dist(a, b) == IF a >= b THEN a - b ELSE b - a

\* C9: the chance of rain is min(rain_mm * 20, 100) in hourly mode and
\* min(rain_mm * 10, 100) in daily mode, up to the rounding of the two
\* returned numbers; it never exceeds 100; a log value of 0 gives 0 rain and
\* 0 chance; 5 mm/h or more gives exactly 100 in hourly mode.
C9_ChanceOfRain ==
    response.prediction.present =>
        /\ Dist(100 * response.prediction.chance_of_rain,
                Min(response.prediction.rain_mm * ScaleOf(granularity), 100000)) <= 60
        /\ response.prediction.chance_of_rain <= 1000
        /\ y_log = 0 => (response.prediction.rain_mm = 0
                         /\ response.prediction.chance_of_rain = 0)
        /\ (granularity = "hourly" /\ response.prediction.rain_mm >= 5000)
              => response.prediction.chance_of_rain = 1000

\* an hourly prediction above 5 mm/h, capped at 100
C9_Witness ==
    /\ response.prediction.present
    /\ granularity = "hourly"
    /\ response.prediction.rain_mm > 5000
    /\ response.prediction.chance_of_rain = 1000

\* C10: a pipeline that has ended made exactly one GET (none while it still
\* awaits it); when the GET failed, the pipeline raised the fetch error whose
\* message holds the text of the upstream error, and produced no matrix and
\* no prediction.
C10_OneGetNoRetry ==
    /\ (pc = "fetching") => httpGets = 0
    /\ (pc = "done" /\ granularity # None) =>
          /\ httpGets = 1
          /\ http_error # None =>
                /\ result.error.type = "httpx.HTTPError"
                /\ http_error \in SeqRange(result.error.msg)
                /\ result.weather_data_2d = <<>>
                /\ ~response.prediction.present

\* a chat request whose GET failed
C10_Witness ==
    /\ pc = "done"
    /\ caller = "chat"
    /\ http_error = "ReadTimeout"
    /\ httpGets = 1
    /\ response.text = "fetch_failed"

\* the required-field list of the pipeline that was entered
RequiredOf(kind) ==
    IF kind = "hourly" THEN required_fields_hourly ELSE required_fields_daily

\* C11: when the GET succeeds and the body lacks the top-level key or a
\* required sub-field, the pipeline raises the schema error (a ValueError)
\* and yields no matrix and no prediction; of several missing sub-fields the
\* error names the one that comes first in the required list.
C11_SchemaErrorNamesFirstMissing ==
    (/\ pc = "done"
     /\ granularity # None
     /\ http_error = None
     /\ (~body.top \/ body.missing # {}))
        => /\ result.error.type = "ValueError"
           /\ result.weather_data_2d = <<>>
           /\ ~response.prediction.present
           /\ ~body.top => result.error.msg = <<"API response missing data", granularity>>
           /\ body.top =>
                \E k \in 1..Len(RequiredOf(granularity)) :
                    /\ RequiredOf(granularity)[k] \in body.missing
                    /\ \A j \in 1..(k - 1) : RequiredOf(granularity)[j] \notin body.missing
                    /\ result.error.msg = <<"API response missing required field: ",
                                            RequiredOf(granularity)[k]>>

\* a body lacking two sub-fields other than time, answered by chat
C11_Witness ==
    /\ pc = "done"
    /\ caller = "chat"
    /\ body.top
    /\ Cardinality(body.missing) = 2
    /\ "time" \notin body.missing
    /\ result.error.type = "ValueError"
    /\ response.text = "fetch_failed"

\* the feature columns and the normalizer profile of a granularity
ColumnsOf(kind) ==
    IF kind = "hourly" THEN feature_columns_hourly ELSE feature_columns_daily
MeanOf(kind) == IF kind = "hourly" THEN FEATURE_MEAN ELSE DAILY_FEATURE_MEAN
StdOf(kind) == IF kind = "hourly" THEN FEATURE_STD ELSE DAILY_FEATURE_STD

RECURSIVE frac_digits(_, _, _)
frac_digits(r, den, k) ==
    IF k = 0 THEN 0
    ELSE ((10 * r) \div den) * 10 ^ (k - 1) + frac_digits((10 * r) % den, den, k - 1)

\* the number a cell of the matrix holds: the quotient of the division,
\* truncated towards zero to millionths
quotient_value(cell) ==
    LET a  == 1000 * (IF cell.num >= 0 THEN cell.num ELSE -cell.num)
        q  == (a \div cell.den) * 1000000 + frac_digits(a % cell.den, cell.den, 6)
    IN  IF cell.num >= 0 THEN q ELSE -q

\* q * (std + 1e-6) + mean, from q in millionths and std, mean in
\* thousandths, to thousandths: the product is formed from the high and low
\* three digits of q
denormalize(q, mean, std) ==
    LET a   == IF q >= 0 THEN q ELSE -q
        qh  == a \div 1000
        ql  == a % 1000
        mag == qh * std + RDiv(ql * std, 1000) + a \div 1000000
        p   == RDiv(mag, 1000)
    IN  (IF q >= 0 THEN p ELSE -p) + mean

\* C13: denormalizing the returned matrix with the same profile gives back
\* the raw feature values: for every cell (i, j) of every returned matrix,
\* normalized[i][j] * (std[j] + 1e-6) + mean[j] is the raw value of column j
\* in row i of the returned frame, to within one thousandth.
C13_RoundTrip ==
    (pc = "done" /\ granularity # None /\ result.error = NoError)
        => \A i \in 1..Len(result.df) :
            \A j \in 1..Len(ColumnsOf(granularity)) :
                Dist(denormalize(quotient_value(result.weather_data_2d[i][j]),
                                 MeanOf(granularity)[j], StdOf(granularity)[j]),
                     cell_value(result.df[i], ColumnsOf(granularity)[j]))
                    <= 1

\* a returned matrix with a negative and a positive cell that are not whole
\* numbers
C13_Witness ==
    /\ pc = "done"
    /\ granularity # None
    /\ result.error = NoError
    /\ \E i \in 1..Len(result.df) :
        \E j, k \in 1..Len(ColumnsOf(granularity)) :
            /\ quotient_value(result.weather_data_2d[i][j]) < 0
            /\ quotient_value(result.weather_data_2d[i][j]) % 1000000 # 0
            /\ quotient_value(result.weather_data_2d[i][k]) > 0
            /\ quotient_value(result.weather_data_2d[i][k]) % 1000000 # 0

\* C14: under any interleaving of requests served side by side, no handler
\* step writes the process-wide state: model and daily_model are written by
\* the startup hook only, and never change once the service takes requests.
C14_HandlesWrittenOnlyAtStartup ==
    [][pc # "boot" => (model' = model /\ daily_model' = daily_model)]_vars

\* one handler has answered while another, accepted before or after it, is
\* still suspended at its GET, with one checkpoint missing
C14_Witness ==
    /\ pc = "idle"
    /\ model # daily_model
    /\ \E a, b \in 1..MaxRequests :
        /\ inflight[a].at = "awaiting_get"
        /\ inflight[b].at = "responded"
        /\ inflight[b].text = "prediction"

\* C15: the scoring functions are never called with an absent handle:
\* predict_rainfall is called only while model is loaded and
\* predict_daily_rainfall only while daily_model is loaded, whatever the
\* startup loads did; a request that finds its handle missing is answered
\* without any pipeline or scoring call.
C15_NoScoringWithoutHandle ==
    /\ "predict_rainfall" \in SeqRange(calls) => model
    /\ "predict_daily_rainfall" \in SeqRange(calls) => daily_model
    /\ (pc = "done" /\ response.text \in {"hourly_unavailable", "daily_unavailable"})
          => calls = <<>>

\* after a startup that loaded one checkpoint only, the loaded predictor
\* has scored a request
C15_Witness ==
    /\ pc = "done"
    /\ model # daily_model
    /\ \/ "predict_rainfall" \in SeqRange(calls)
       \/ "predict_daily_rainfall" \in SeqRange(calls)

\* the exception types the pipelines use for each failure of the taxonomy
FetchFailureKinds == {FetchFailed(e).type : e \in UpstreamErrors}
SchemaFailureKinds ==
    {MissingTop(k).type : k \in {"hourly", "daily"}}
        \cup {MissingField(f).type : f \in SeqRange(required_fields_hourly)
                                            \cup SeqRange(required_fields_daily)}
InsufficientDataKinds == {Insufficient(m, n).type : m, n \in 0..1}

\* C16: a fetch failure, a missing schema field and insufficient data reach
\* the caller of the pipeline as exceptions of different kinds: the kind of
\* each is not a kind any of the other failures is reported with; in
\* particular a missing field and insufficient data never share a kind.
C16_DistinctErrorKinds ==
    (pc = "done" /\ granularity # None /\ result.error # NoError)
        => /\ http_error # None
                => result.error.type \notin SchemaFailureKinds \cup InsufficientDataKinds
           /\ (http_error = None /\ (~body.top \/ body.missing # {}))
                => result.error.type \notin FetchFailureKinds \cup InsufficientDataKinds
           /\ (http_error = None /\ body.top /\ body.missing = {}
                                 /\ result.n < min_required(length))
                => result.error.type \notin FetchFailureKinds \cup SchemaFailureKinds

\* the pipeline function and the scoring function of a granularity
FetchFunction(kind) ==
    IF kind = "hourly" THEN "fetch_weather_data" ELSE "fetch_daily_weather_data"
ScoreFunction(kind) ==
    IF kind = "hourly" THEN "predict_rainfall" ELSE "predict_daily_rainfall"

\* C17: within one request the stages run in the order resolve, fetch,
\* align, derive, normalize, score, interpret: the GET is issued only with
\* the resolved endpoint and date parameters, exactly one GET is made, the
\* scoring function is called at most once and only after the pipeline
\* returned a normalized matrix, the answer is the interpretation of that
\* score, and a pipeline that raised (fetch, schema, insufficient data) is
\* followed by no matrix, no scoring call and no prediction.
C17_StageOrder ==
    /\ calls \in {<<>>, <<FetchFunction(granularity)>>,
                  <<FetchFunction(granularity), ScoreFunction(granularity)>>}
    /\ granularity = None => calls = <<>>
    /\ pc = "fetching"
          => /\ url \in {ARCHIVE, FORECAST}
             /\ params # NoParams
             /\ httpGets = 0
             /\ calls = <<FetchFunction(granularity)>>
             /\ result = NoResult
             /\ response = NoResponse
    /\ (pc = "done" /\ granularity # None) => httpGets = 1
    /\ Len(calls) = 2
          => /\ pc = "done"
             /\ result.error = NoError
             /\ result.weather_data_2d # <<>>
             /\ result.weather_data_2d
                    = normalize(result.df, ColumnsOf(granularity),
                                MeanOf(granularity), StdOf(granularity))
             /\ response.prediction
                    = WithPrediction(IF granularity = "hourly"
                                     THEN predict_rainfall(y_log)
                                     ELSE predict_daily_rainfall(y_log))
    /\ (pc = "done" /\ result.error # NoError)
          => /\ Len(calls) = 1
             /\ result.weather_data_2d = <<>>
             /\ result.df = <<>>
             /\ ~response.prediction.present
             /\ caller # "direct" => response.text = "fetch_failed"

\* a handler whose pipeline fetched and then raised in the aligner, on
\* insufficient data, answered without any scoring call
C17_Witness ==
    /\ pc = "done"
    /\ caller \in {"chat", "chat_daily"}
    /\ result.error # NoError
    /\ result.error.type = "ValueError"
    /\ result.n > 0
    /\ calls = <<FetchFunction(granularity)>>

\* the start of the window of the pipeline that was entered
WindowStart ==
    IF granularity = "hourly" THEN start_time_hourly(end_time, length)
    ELSE start_date_daily(end_time, length)

\* C18: a request to the forecast source carries forecast_days = 1 and
\* past_days = min(max(0, UTC today - date(start)) + 1, 92), a value of
\* 1..92, and neither start_date nor end_date; a request to the archive
\* source carries start_date = date(start) and end_date = date(end) and
\* neither past_days nor forecast_days.
C18_SourceParameters ==
    (granularity # None /\ pc \in {"fetching", "done"})
        => LET back == Date(now_utc) - Date(WindowStart)
           IN  /\ url \in {ARCHIVE, FORECAST}
               /\ url = FORECAST
                    => /\ DOMAIN params = {"past_days", "forecast_days"}
                       /\ params.forecast_days = 1
                       /\ params.past_days \in 1..92
                       /\ params.past_days = (IF back < 0 THEN 1
                                              ELSE IF back + 1 > 92 THEN 92
                                              ELSE back + 1)
               /\ url = ARCHIVE
                    => /\ DOMAIN params = {"start_date", "end_date"}
                       /\ params.start_date = Date(WindowStart)
                       /\ params.end_date = Date(end_time)

\* a forecast request whose window starts more than 92 days back, sent
\* with the limit
C18_Witness ==
    /\ pc = "fetching"
    /\ url = FORECAST
    /\ Date(now_utc) - Date(WindowStart) + 1 > 92
    /\ params.past_days = 92

\* the granularity unit in hours, and the instant of a record: hourly
\* records are stamped with their hour, daily records with the midnight of
\* their day
UnitHours == IF granularity = "hourly" THEN 1 ELSE 24
Instant(r) == UnitHours * r.time

\* a record of the response lies in (start - 1 unit, end]
InWindow(r) == Instant(r) > WindowStart - UnitHours /\ Instant(r) <= end_time

\* the rows of the returned frame that came from the response: padding
\* appends its rows after them
RealRows == SubSeq(result.df, 1, Min(result.n, length))

\* C19: every record of the response that the aligner keeps has a
\* timestamp t with start - 1 unit < t <= end, where start = end - length;
\* the records that pass the filter are exactly the records of the response
\* in that interval, so records at or before start - 1 unit and records
\* after end are dropped, in the hourly and in the daily pipeline.
C19_WindowFilter ==
    (pc = "done" /\ granularity # None /\ http_error = None
                 /\ body.top /\ body.missing = {})
        => /\ result.n = Cardinality({k \in 1..Len(body.rows) : InWindow(body.rows[k])})
           /\ result.error = NoError
                => /\ \A i \in 1..Len(RealRows) : InWindow(RealRows[i])
                   /\ \A k \in 1..Len(body.rows) :
                        ~InWindow(body.rows[k])
                            => \A i \in 1..Len(RealRows) :
                                    RealRows[i].time # body.rows[k].time

\* a returned frame that begins with the record at start, from a response
\* that also held the record one unit before start
C19_Witness ==
    /\ pc = "done"
    /\ granularity # None
    /\ result.error = NoError
    /\ Len(RealRows) > 0
    /\ Instant(RealRows[1]) <= WindowStart
    /\ \E k \in 1..Len(body.rows) : Instant(body.rows[k]) <= WindowStart - UnitHours

\* the column that tells the records of one response apart
ValueColumn == IF granularity = "hourly" THEN "temperature_2m" ELSE "temp_mean_C"

\* row r of the returned frame is record b of the response
SameRecord(r, b) == r.time = b.time /\ r[ValueColumn] = b[ValueColumn]

\* C20: when more than `length` records pass the filter, the returned frame
\* is exactly `length` of them, in ascending order of timestamp, and they
\* are the most recent ones: every record that passed the filter and is not
\* in the frame is no newer than any record of the frame.
C20_TrimKeepsMostRecent ==
    (/\ pc = "done"
     /\ granularity # None
     /\ result.error = NoError
     /\ result.n > length)
        => LET inside == {k \in 1..Len(body.rows) : InWindow(body.rows[k])}
               kept == {k \in inside : \E i \in 1..Len(result.df) :
                                            SameRecord(result.df[i], body.rows[k])}
           IN  /\ Len(result.df) = length
               /\ \A i \in 1..(Len(result.df) - 1) :
                    result.df[i].time <= result.df[i + 1].time
               /\ \A i \in 1..Len(result.df) :
                    \E k \in inside : SameRecord(result.df[i], body.rows[k])
               /\ Cardinality(kept) = length
               /\ \A k \in inside \ kept :
                    \A i \in 1..Len(result.df) : body.rows[k].time <= result.df[i].time

\* a response that came newest first, with one record more in the window
\* than the length asked for, was trimmed
C20_Witness ==
    /\ pc = "done"
    /\ granularity # None
    /\ result.error = NoError
    /\ length >= 2
    /\ result.n = length + 1
    /\ Len(body.rows) >= 2
    /\ body.rows[1].time > body.rows[2].time

\* C21: whatever the order and repetition of the records in the response,
\* the timestamps of the returned frame, padded rows included, are strictly
\* increasing: no two rows carry the same timestamp.
C21_StrictlyIncreasing ==
    (pc = "done" /\ granularity # None /\ result.error = NoError)
        => \A i \in 1..(Len(result.df) - 1) :
                result.df[i].time < result.df[i + 1].time

\* a daily pipeline returned its frame
DailyReturned == pc = "done" /\ granularity = "daily" /\ result.error = NoError

\* C22: in every returned daily frame, counting rows from 1: precip_lag_1
\* of row t is the precipitation of row t - 1, and 0 in row 1; precip_lag_3
\* of row t is the precipitation of row t - 3, and 0 in rows 1..3;
\* temp_mean_lag_1 of row t is the mean temperature of row t - 1, and the
\* mean temperature of row 1 itself in row 1.
C22_DailyLagFeatures ==
    DailyReturned
        => \A t \in 1..Len(result.df) :
            /\ result.df[t].precip_lag_1
                   = (IF t >= 2 THEN result.df[t - 1].precipitation_sum_mm ELSE 0)
            /\ result.df[t].precip_lag_3
                   = (IF t >= 4 THEN result.df[t - 3].precipitation_sum_mm ELSE 0)
            /\ result.df[t].temp_mean_lag_1
                   = (IF t >= 2 THEN result.df[t - 1].temp_mean_C
                      ELSE result.df[1].temp_mean_C)

\* a daily frame of at least four rows with rain on every day, whose
\* neighbouring rows differ in rain and temperature
C22_Witness ==
    /\ DailyReturned
    /\ Len(result.df) >= 4
    /\ \A t \in 1..Len(result.df) : result.df[t].precipitation_sum_mm > 0
    /\ result.df[1].precipitation_sum_mm # result.df[4].precipitation_sum_mm
    /\ result.df[1].temp_mean_C # result.df[2].temp_mean_C
    /\ result.df[4].precip_lag_3 = result.df[1].precipitation_sum_mm

\* C23: in every returned daily frame, counting rows from 1, precip_roll7
\* of row t is the mean of the precipitation of the last min(t, 7) rows up
\* to and including row t (to the thousandth below); it is defined for
\* every row, and in row 1 it is the precipitation of row 1.
C23_DailyRollingMean ==
    DailyReturned
        => /\ Len(result.df) >= 1
           /\ result.df[1].precip_roll7 = 1000 * result.df[1].precipitation_sum_mm
           /\ \A t \in 1..Len(result.df) :
                LET count == Min(t, 7)
                    total == SumCol(result.df, "precipitation_sum_mm", t - count + 1, t)
                IN  /\ count * result.df[t].precip_roll7 <= 1000 * total
                    /\ 1000 * total < count * (result.df[t].precip_roll7 + 1)

\* a daily frame of more than seven rows whose window has slid past a first
\* row of different rain, with a mean that is not a whole number
C23_Witness ==
    /\ DailyReturned
    /\ Len(result.df) >= 8
    /\ result.df[1].precipitation_sum_mm # result.df[8].precipitation_sum_mm
    /\ \E t \in 2..6 : result.df[t].precip_roll7 % 1000 # 0

\* C24: the lag and rolling features are derived from the rows of the
\* aligned frame and from nothing else: deriving them again from the
\* returned frame gives the same frame, and its first row has
\* precip_lag_1 = 0, precip_lag_3 = 0, temp_mean_lag_1 equal to its own mean
\* temperature and precip_roll7 equal to its own precipitation, also when
\* the response held an earlier record that the filter or the trim removed.
C24_FeaturesFollowAlignment ==
    DailyReturned
        => /\ result.df = add_features_daily(result.df, location.latitude,
                                             location.longitude)
           /\ result.df[1].precip_lag_1 = 0
           /\ result.df[1].precip_lag_3 = 0
           /\ result.df[1].temp_mean_lag_1 = result.df[1].temp_mean_C
           /\ result.df[1].precip_roll7 = 1000 * result.df[1].precipitation_sum_mm

\* the response held a rainy record, earlier than the first row of the
\* returned frame, that was trimmed away although it lay in the window
C24_Witness ==
    /\ DailyReturned
    /\ result.n > length
    /\ \E k \in 1..Len(body.rows) :
        /\ InWindow(body.rows[k])
        /\ body.rows[k].time < result.df[1].time
        /\ body.rows[k].precipitation_sum_mm > 0
    /\ result.df[1].precip_lag_1 = 0

\* C25: an end given to the pipeline is used unchanged and no timezone
\* lookup is made; without one the end is now in the zone that the lookup
\* returned for the coordinates (now shifted by the zone's offset), or now
\* in UTC when the lookup returned no zone; in every case the window starts
\* the length (in hours or days) before the end, which is the start the
\* archive request is sent with.
C25_ResolverEnd ==
    (granularity # None /\ pc \in {"fetching", "done"})
        => /\ end_param.given
                => /\ end_time = end_param.value
                   /\ fetch_tz = None
                   /\ timezone_str = NoLookup
           /\ ~end_param.given
                => /\ fetch_tz \in {"found", "not_found"}
                   /\ fetch_tz = "found" <=> timezone_str.found
                   /\ timezone_str.found => end_time = now_utc + timezone_str.offset
                   /\ ~timezone_str.found => end_time = now_utc
           /\ WindowStart = end_time - UnitHours * length
           /\ url = ARCHIVE => params.start_date = Date(end_time - UnitHours * length)

\* no end was given and the lookup found a zone that is not UTC
C25_Witness ==
    /\ pc = "fetching"
    /\ ~end_param.given
    /\ fetch_tz = "found"
    /\ timezone_str.offset # 0
    /\ end_time # now_utc

\* C26: for every positive length, when no record of a well-formed response
\* survives the window filter, the hourly pipeline raises the
\* insufficient-data error, naming the required count and 0, and no other
\* error; it does not go on to pad an empty frame.
C26_EmptyWindowIsInsufficient ==
    (/\ pc = "done"
     /\ granularity = "hourly"
     /\ length >= 1
     /\ http_error = None
     /\ body.top
     /\ body.missing = {}
     /\ result.n = 0)
        => /\ IsInsufficient(result.error, min_required(length), 0)
           /\ result.error # EmptyFrameIndexError

\* a handler got past its early returns, to the test of a predictor handle
HandleTested ==
    /\ caller \in {"chat", "chat_daily"}
    /\ pc \in {"fetching", "done"}
    /\ response.text \notin {"greeting", "help", "info", "ask_location", "specify_city"}

\* the granularity the handler selects: chat_daily the daily one, chat the
\* daily one for an offset of 18 hours or more with the daily predictor
\* loaded and the hourly one otherwise
SelectedGranularity ==
    IF caller = "chat_daily" \/ use_daily_model(time_offset, daily_model)
    THEN "daily" ELSE "hourly"

\* the predictor of the selected granularity is loaded
SelectedAvailable == IF SelectedGranularity = "daily" THEN daily_model ELSE model

\* C27: in chat and chat_daily, when the predictor of the selected
\* granularity is not loaded, the request ends with the model-unavailable
\* answer of that granularity and no pipeline was entered: no GET was
\* issued or made, no endpoint chosen, no function called; an unavailable
\* answer is never given after a fetch.
C27_AvailabilityPrecedesFetching ==
    /\ (HandleTested /\ ~SelectedAvailable)
          => /\ pc = "done"
             /\ response.text = (IF SelectedGranularity = "daily"
                                 THEN "daily_unavailable" ELSE "hourly_unavailable")
             /\ granularity = None
             /\ url = None
             /\ httpGets = 0
             /\ calls = <<>>
             /\ ~response.prediction.present
    /\ response.text \in {"daily_unavailable", "hourly_unavailable"}
          => (httpGets = 0 /\ calls = <<>> /\ ~SelectedAvailable)

\* chat found the hourly predictor missing for a request it would have
\* served with it, while the daily predictor was loaded
C27_Witness ==
    /\ pc = "done"
    /\ caller = "chat"
    /\ response.text = "hourly_unavailable"
    /\ daily_model
    /\ httpGets = 0

\* C28: a chat_daily request, whatever hour offset its query parses to and
\* whether or not the hourly predictor is loaded, never enters the hourly
\* pipeline and never calls fetch_weather_data or predict_rainfall; once
\* past the location prompts it either ends with the daily-unavailable
\* answer, having called nothing, or runs the daily pipeline only:
\* fetch_daily_weather_data for 30 days up to now, then at most
\* predict_daily_rainfall.
C28_DailyEndpointStaysDaily ==
    caller = "chat_daily"
        => /\ SeqRange(calls) \cap HourlyCalls = {}
           /\ granularity \in {None, "daily"}
           /\ response.text # "hourly_unavailable"
           /\ HandleTested
                => \/ /\ ~daily_model
                      /\ pc = "done"
                      /\ response.text = "daily_unavailable"
                      /\ calls = <<>>
                   \/ /\ daily_model
                      /\ granularity = "daily"
                      /\ length = 30
                      /\ ~end_param.given
                      /\ calls \in {<<"fetch_daily_weather_data">>,
                                    <<"fetch_daily_weather_data", "predict_daily_rainfall">>}

\* chat_daily answered a daily prediction for a query that parsed to an
\* offset below 18 hours, with the hourly predictor loaded
C28_Witness ==
    /\ caller = "chat_daily"
    /\ pc = "done"
    /\ time_offset < 18
    /\ model
    /\ calls = <<"fetch_daily_weather_data", "predict_daily_rainfall">>
    /\ response.prediction.present

\* a chat request is being served
ChatRequest == caller = "chat" /\ pc \in {"fetching", "done"}

\* what holds of a chat request at every moment: no response while the GET
\* is awaited, a response once the handler is over, and in it a prediction
\* exactly when the selected pipeline fetched, returned its frame and the
\* scoring function was called on it; a padded hourly frame holds exactly
\* length - n padded rows after its n real ones
ChatResponseState ==
    ChatRequest
        => /\ pc = "fetching" => response = NoResponse
           /\ pc = "done" => response.text # None
           /\ pc = "done"
                => (response.prediction.present
                      <=> /\ granularity # None
                          /\ httpGets = 1
                          /\ http_error = None
                          /\ result.error = NoError
                          /\ calls = <<FetchFunction(granularity),
                                       ScoreFunction(granularity)>>)
           /\ (pc = "done" /\ granularity = "hourly" /\ result.error = NoError
                           /\ result.n < length)
                => /\ Len(result.df) - result.n = length - result.n
                   /\ \A k \in (result.n + 1)..Len(result.df) :
                        result.df[k].time = result.df[result.n].time + (k - result.n)

\* a response is written once per request: it changes only from none to the
\* answer, in the step that ends the handler, and back to none when the
\* request is over
ResponseWrittenOnce ==
    response' # response
        => \/ response = NoResponse /\ pc' = "done" /\ response' # NoResponse
           \/ pc = "done" /\ pc' # "done" /\ response' = NoResponse

====
